---- MODULE Spec2Model ----
(***************************************************************************)
(* PivotTable (src/PivotTable.ts): the exported PivotTable instance, its   *)
(* in-memory relation temp_rows, and the two entry points getPivotData and *)
(* getPivotDataFromMultipleConfigurations, each cut into one atomic step   *)
(* per await.                                                              *)
(*                                                                         *)
(* A JavaScript string is modelled as the sequence of its words (the text  *)
(* between single blanks): 'category AS name' is <<"category","AS","name">>*)
(* so that split(' AS ') and indexOf(' ') are computed, not assumed.       *)
(* A field value is a record [t, n, s]: its typeof, its number, its string *)
(* form.                                                                   *)
(***************************************************************************)
EXTENDS Integers, Sequences, FiniteSets, TLC

VARIABLES
  model,    \* this.model: <<>> while undefined, <<definition>> once defined
  exists,   \* whether the relation temp_rows exists in the database
  cols,     \* the columns of the relation temp_rows
  table,    \* the rows of temp_rows, each [owner |-> call id, rec |-> record]
  sess,     \* the calls in flight or last finished, one per caller slot
  calls     \* the number of calls started so far

vars == <<model, exists, cols, table, sess, calls>>

----------------------------------------------------------------------------
(* Bounds *)

\* Calls a caller makes one after the other.
MaxCalls == 2
\* Rows a call may find left over in temp_rows when it starts.
MaxRows == 4
\* Configurations in one configArray.
MaxBatch == 2
\* Calls made before the batch that is compared with single calls.
MaxPrior == 1
\* Entries in the aggregation, groupBy and sortBy lists of a configuration
\* taken together, where configurations are enumerated.
MaxFields == 3

Sessions == {1, 2}

----------------------------------------------------------------------------
(* Values, records and datasets *)

TEMP_TABLE_NAME == "temp_rows"

S(str) == [t |-> "string", n |-> 0, s |-> str]
N(i) == [t |-> "number", n |-> i, s |-> ToString(i)]

r1 == [month |-> S("m1"), amount |-> N(1)]
r2 == [month |-> S("m2"), amount |-> N(2)]

DataSets == {<<>>, <<r1>>, <<r2, r1>>}

\* A value with a quote in it, and the test for one.
OHara == "O'Hara, Schinner and Schumm"
HasQuote(str) == str = OHara

----------------------------------------------------------------------------
(* Strings as word sequences *)

W(w) == <<w>>

\* item.indexOf(' ') !== -1
HasBlank(item) == Len(item) > 1

RECURSIVE SplitFrom(_, _, _)
\* item.split(' AS ') scanning from word i, cur being the part collected so
\* far: a word "AS" is a separator when a blank precedes and follows it and
\* the blank before it was not consumed by the previous separator.
SplitFrom(item, i, cur) ==
  IF i > Len(item) THEN <<cur>>
  ELSE IF item[i] = "AS" /\ i > 1 /\ i < Len(item) /\ cur # <<>>
       THEN <<cur>> \o SplitFrom(item, i + 1, <<>>)
       ELSE SplitFrom(item, i + 1, Append(cur, item[i]))

SplitAS(item) == SplitFrom(item, 1, <<>>)

----------------------------------------------------------------------------
(* Errors *)

\* An error: the class of the thrown object, its message and, for a message
\* that quotes a field of the configuration, the clause and the field.
NoError == [kind |-> "none", message |-> "", clause |-> "", field |-> <<>>]
Error(kind, message) ==
  [kind |-> kind, message |-> message, clause |-> "", field |-> <<>>]
InvalidField(clause, field) ==
  [kind |-> "Error",
   message |-> CASE clause = "aggregation" -> "Invalid aggregation field: "
                 [] clause = "groupBy" -> "Invalid field in groupBy: "
                 [] OTHER -> "Invalid sortBy field: ",
   clause |-> clause, field |-> field]
\* Raised by the engine (sequelize); its message names the failed statement.
DatabaseError(statement) == Error("DatabaseError", statement)
\* Object.entries(undefined)
TypeError == Error("TypeError", "Cannot convert undefined or null to object")
BucketLimitError == Error("Error", "Column values exceed the limit of 150")

\* What an awaited promise settles to.
Resolved(val) == [ok |-> TRUE, err |-> NoError, val |-> val]
Rejected(err) == [ok |-> FALSE, err |-> err, val |-> <<>>]

----------------------------------------------------------------------------
(* IPivotConf *)

NoPivot ==
  [present |-> FALSE, caseColumn |-> <<>>, sumColumn |-> <<>>,
   hasValues |-> FALSE, values |-> <<>>]
Pivot(c, s) ==
  [present |-> TRUE, caseColumn |-> W(c), sumColumn |-> W(s),
   hasValues |-> FALSE, values |-> <<>>]
PivotValues(c, s, vals) ==
  [present |-> TRUE, caseColumn |-> W(c), sumColumn |-> W(s),
   hasValues |-> TRUE, values |-> vals]

NoList == [present |-> FALSE, items |-> <<>>]
List(items) == [present |-> TRUE, items |-> items]

IPivotConf(pivot, agg, gb, sb) ==
  [pivotColumn |-> pivot, aggregation |-> agg, groupBy |-> gb, sortBy |-> sb]

cfgSum == IPivotConf(NoPivot, <<W("amount")>>, NoList, NoList)
cfgPivot == IPivotConf(Pivot("month", "amount"), <<W("amount")>>, NoList, NoList)
cfgValues ==
  IPivotConf(PivotValues("month", "amount",
                         <<[key |-> "q", value |-> <<"m1", "m2">>],
                           [key |-> "x", value |-> <<"m3">>]>>),
             <<W("amount")>>, List(<<W("month")>>), List(<<W("month")>>))
cfgAlias ==
  IPivotConf(NoPivot, <<W("amount")>>,
             List(<<<<"null", "AS", "parentId">>, <<"month", "AS", "name">>>>),
             NoList)
cfgBadAgg == IPivotConf(NoPivot, <<W("nope")>>, NoList, NoList)
cfgBadSort == IPivotConf(NoPivot, <<W("amount")>>, NoList, List(<<W("nope")>>))
cfgBadPivot == IPivotConf(Pivot("nope", "amount"), <<W("amount")>>, NoList, NoList)

Configs == {cfgSum, cfgPivot, cfgValues, cfgAlias, cfgBadAgg, cfgBadSort, cfgBadPivot}

----------------------------------------------------------------------------
(* Schema inference and validation *)

getTableDefinition(sample) ==
  [key \in DOMAIN sample |->
     IF sample[key].t = "number" THEN "DOUBLE" ELSE "STRING"]

\* definition.hasOwnProperty(item)
HasOwnProperty(definition, item) ==
  Len(item) = 1 /\ item[1] \in DOMAIN definition

\* forEach with a throw stops at the first offending entry: the least of the
\* offending positions, 0 when there is none.
FirstBad(bad) ==
  IF bad = {} THEN 0 ELSE CHOOSE i \in bad : \A j \in bad : i <= j

\* Faulty variant: an aliased null is checked against the schema as well.
GroupByInvalid_NullChecked(item, definition) ==
  LET parts == SplitAS(item)
      column == parts[1]
  IN  ~HasBlank(column) /\ ~HasOwnProperty(definition, column)

\* The two throwing conditions of the groupBy loop.
GroupByInvalid(item, definition) ==
  LET parts == SplitAS(item)
      column == parts[1]
      hasAlias == Len(parts) > 1
  IN  \/ ~hasAlias /\ ~HasBlank(column) /\ ~HasOwnProperty(definition, column)
      \/ /\ hasAlias
         /\ ~HasOwnProperty(definition, column)
         /\ column # W("null")
         /\ ~HasBlank(column)

validatePivotConfig(pivotConf, definition) ==
  LET aggregation == pivotConf.aggregation
      groupBy == pivotConf.groupBy
      sortBy == pivotConf.sortBy
      a == FirstBad({i \in 1..Len(aggregation) :
                       ~HasOwnProperty(definition, aggregation[i])})
      g == IF groupBy.present
           THEN FirstBad({i \in 1..Len(groupBy.items) :
                            GroupByInvalid(groupBy.items[i], definition)})
           ELSE 0
      s == IF sortBy.present
           THEN FirstBad({i \in 1..Len(sortBy.items) :
                            ~HasOwnProperty(definition, sortBy.items[i])})
           ELSE 0
  IN  IF a > 0 THEN Rejected(InvalidField("aggregation", pivotConf.aggregation[a]))
      ELSE IF g > 0
        THEN Rejected(InvalidField("groupBy", SplitAS(pivotConf.groupBy.items[g])[1]))
      ELSE IF s > 0
        THEN Rejected(InvalidField("sortBy", pivotConf.sortBy.items[s]))
      ELSE Resolved(<<>>)

----------------------------------------------------------------------------
(* Query assembly.  The query text is kept as its clauses: the select list  *)
(* is a sequence of expressions, each [kind, column, op, values, sumColumn, *)
(* alias].                                                                  *)

MaxCaseValues == 150

CaseExpr(caseColumn, op, values, sumColumn, alias) ==
  [kind |-> "case", column |-> caseColumn, op |-> op, values |-> values,
   sumColumn |-> sumColumn, alias |-> alias]
SumExpr(column, alias) ==
  [kind |-> "sum", column |-> column, op |-> "", values |-> <<>>,
   sumColumn |-> <<>>, alias |-> alias]

\* The statement getSqlCase sends when pivotColumn.values is absent.
DistinctSql(pivotColumn) == [kind |-> "distinct", column |-> pivotColumn.caseColumn]

\* Faulty variant: the limit is reached at 150 values already.
getSqlCaseDiscovered_AtLimit(pivotColumn, caseValues) ==
  IF Len(caseValues) >= MaxCaseValues
  THEN Rejected(BucketLimitError)
  ELSE Resolved([i \in 1..Len(caseValues) |->
                   CaseExpr(pivotColumn.caseColumn, "=", <<caseValues[i].s>>,
                            pivotColumn.sumColumn, W(caseValues[i].s))])

\* getSqlCase from its else branch on: caseValues is what the scan returned.
getSqlCaseDiscovered(pivotColumn, caseValues) ==
  IF Len(caseValues) > MaxCaseValues
  THEN Rejected(BucketLimitError)
  ELSE Resolved([i \in 1..Len(caseValues) |->
                   CaseExpr(pivotColumn.caseColumn, "=", <<caseValues[i].s>>,
                            pivotColumn.sumColumn, W(caseValues[i].s))])

\* getSqlCase in its values branch.
getSqlCaseValues(pivotColumn) ==
  [i \in 1..Len(pivotColumn.values) |->
     CaseExpr(pivotColumn.caseColumn, "IN", pivotColumn.values[i].value,
              pivotColumn.sumColumn, W(pivotColumn.values[i].key))]

\* Faulty variant: the sums of the aggregation come before the buckets.
getSql_AggFirst(pivotConf, selectCase) ==
  LET groupBy == pivotConf.groupBy
      sortBy == pivotConf.sortBy
      selectAgg ==
        [i \in 1..Len(pivotConf.aggregation) |->
           LET parts == SplitAS(pivotConf.aggregation[i])
               column == parts[1]
               alias == IF Len(parts) > 1 THEN parts[2] ELSE column
           IN  SumExpr(column, alias)]
  IN  [kind |-> "select",
       groupFieldsSql |->
         IF groupBy.present /\ Len(groupBy.items) > 0 THEN groupBy.items ELSE <<>>,
       selectArr |-> selectAgg \o selectCase,
       from |-> TEMP_TABLE_NAME,
       hasGroupBy |-> groupBy.present,
       groupFields |->
         [i \in 1..Len(groupBy.items) |-> SplitAS(groupBy.items[i])[1]],
       hasOrderBy |-> sortBy.present,
       orderBy |-> sortBy.items]

\* getSql after getSqlCase has returned selectCase.
getSql(pivotConf, selectCase) ==
  LET groupBy == pivotConf.groupBy
      sortBy == pivotConf.sortBy
      selectAgg ==
        [i \in 1..Len(pivotConf.aggregation) |->
           LET parts == SplitAS(pivotConf.aggregation[i])
               column == parts[1]
               alias == IF Len(parts) > 1 THEN parts[2] ELSE column
           IN  SumExpr(column, alias)]
  IN  [kind |-> "select",
       groupFieldsSql |->
         IF groupBy.present /\ Len(groupBy.items) > 0 THEN groupBy.items ELSE <<>>,
       selectArr |-> selectCase \o selectAgg,
       from |-> TEMP_TABLE_NAME,
       hasGroupBy |-> groupBy.present,
       groupFields |->
         [i \in 1..Len(groupBy.items) |-> SplitAS(groupBy.items[i])[1]],
       hasOrderBy |-> sortBy.present,
       orderBy |-> sortBy.items]

----------------------------------------------------------------------------
(* The relational engine behind this.db and this.model: sqlite::memory:.    *)
(* A statement takes effect when it is issued (the engine runs statements   *)
(* in the order they are sent); the caller sees the outcome at its await.   *)

Range(seq) == {seq[i] : i \in 1..Len(seq)}

IsColumn(expr) == Len(expr) = 1 /\ expr[1] \in cols

\* A bare word must name a column; null and compound expressions are left to
\* the engine.
Resolves(expr) == IsColumn(expr) \/ expr = W("null") \/ HasBlank(expr)

Eval(expr, rec) ==
  IF IsColumn(expr) THEN rec[expr[1]]
  ELSE IF expr = W("null") THEN S("null") ELSE S("expr")

\* SELECT DISTINCT column: the values in the order first met.
Distinct(column, rows) ==
  LET value(i) == Eval(column, rows[i].rec)
      first == SelectSeq([i \in 1..Len(rows) |-> i],
                         LAMBDA i : \A j \in 1..(i - 1) : value(j) # value(i))
  IN  [k \in 1..Len(first) |-> value(first[k])]

\* What one row adds to one select expression.
Contribution(e, rec) ==
  IF e.kind = "sum" THEN Eval(e.column, rec).n
  ELSE IF Eval(e.column, rec).s \in Range(e.values)
       THEN Eval(e.sumColumn, rec).n ELSE 0

RECURSIVE Total(_, _)
\* The sum of the rows' contributions, halving the rows.
Total(e, rows) ==
  IF rows = <<>> THEN 0
  ELSE IF Len(rows) = 1 THEN Contribution(e, rows[1].rec)
  ELSE LET half == Len(rows) \div 2
       IN  Total(e, SubSeq(rows, 1, half))
             + Total(e, SubSeq(rows, half + 1, Len(rows)))

GroupKey(sql, rec) ==
  [i \in 1..Len(sql.groupFields) |-> Eval(sql.groupFields[i], rec).s]

\* The rows of an aggregate query: one per group (one in all without GROUP
\* BY), each the group's key and one cell per select expression.
SelectRows(sql, rows) ==
  LET keys == IF sql.hasGroupBy
              THEN {GroupKey(sql, rows[i].rec) : i \in 1..Len(rows)}
              ELSE {<<>>}
      group(k) == SelectSeq(rows, LAMBDA row :
                              ~sql.hasGroupBy \/ GroupKey(sql, row.rec) = k)
  IN  {[key |-> k,
        cells |-> [i \in 1..Len(sql.selectArr) |->
                     Total(sql.selectArr[i], group(k))]] : k \in keys}

\* Statements the engine rejects whatever the rows are.
Refuses(sql) ==
  \/ ~exists
  \/ sql.kind = "distinct" /\ ~Resolves(sql.column)
  \/ /\ sql.kind = "select"
     /\ \/ sql.selectArr = <<>>
        \/ sql.hasGroupBy /\ sql.groupFields = <<>>
        \/ sql.hasOrderBy /\ sql.orderBy = <<>>
        \/ \E i \in 1..Len(sql.selectArr) :
             \/ ~Resolves(sql.selectArr[i].column)
             \/ \E v \in Range(sql.selectArr[i].values) : HasQuote(v)
             \/ sql.selectArr[i].kind = "case"
                  /\ ~Resolves(sql.selectArr[i].sumColumn)
        \/ \E i \in 1..Len(sql.groupFields) : ~Resolves(sql.groupFields[i])
        \/ \E i \in 1..Len(sql.orderBy) :
             /\ ~Resolves(sql.orderBy[i])
             /\ \A j \in 1..Len(sql.selectArr) :
                  sql.selectArr[j].alias # sql.orderBy[i]

\* this.db.query(sql, ...): reads the relation.
Query(sql, fault) ==
  IF fault \/ Refuses(sql) THEN Rejected(DatabaseError(sql.kind))
  ELSE IF sql.kind = "distinct"
       THEN Resolved(Distinct(sql.column, table))
       ELSE Resolved(SelectRows(sql, table))

\* this.model.sync(): CREATE TABLE IF NOT EXISTS.
Sync(definition, fault) ==
  /\ exists' = (exists \/ ~fault)
  /\ cols' = IF exists \/ fault THEN cols ELSE DOMAIN definition
  /\ UNCHANGED table

SyncOutcome(fault) ==
  IF fault THEN Rejected(DatabaseError("sync")) ELSE Resolved(<<>>)

\* this.model.bulkCreate(data, {ignoreDuplicates: true}): one INSERT.
BulkCreate(id, data, fault) ==
  /\ table' = IF fault \/ ~exists THEN table
              ELSE table \o [i \in 1..Len(data) |-> [owner |-> id, rec |-> data[i]]]
  /\ UNCHANGED <<exists, cols>>

BulkCreateOutcome(fault) ==
  IF fault \/ ~exists THEN Rejected(DatabaseError("bulkCreate")) ELSE Resolved(<<>>)

\* this.model.destroy({truncate: true, ...}).
Destroy(fault) ==
  /\ table' = IF fault \/ ~exists THEN table ELSE <<>>
  /\ UNCHANGED <<exists, cols>>

DestroyOutcome(fault) ==
  IF fault \/ ~exists THEN Rejected(DatabaseError("destroy")) ELSE Resolved(<<>>)

----------------------------------------------------------------------------
(* Calls.  A caller slot holds one call: where it is suspended (pc), what   *)
(* the awaited promise settled to (pending), and what it has done (log).    *)

Merge(r, u) == [k \in DOMAIN r |-> IF k \in DOMAIN u THEN u[k] ELSE r[k]]

Pending == [state |-> "pending", err |-> NoError, value |-> <<>>]
Returned(value) == [state |-> "returned", err |-> NoError, value |-> value]
Threw(err) == [state |-> "threw", err |-> err, value |-> <<>>]

Idle ==
  [kind |-> "none", id |-> 0, pc |-> "idle", data |-> <<>>, confs |-> <<>>,
   i |-> 0, definition |-> <<>>, pending |-> Resolved(<<>>),
   results |-> <<>>, saved |-> NoError, outcome |-> Pending, log |-> <<>>,
   errors |-> <<>>, start |-> <<>>, final |-> <<>>, singles |-> <<>>]

\* One entry of a call's log: the operation, the configuration it was for
\* (0: none) and, for a query, the rows the relation held.  A call's errors
\* are the rejections it has met, in order; its start is the instance and
\* its relation as the call found them.
Event(op, i, rows) == [op |-> op, conf |-> i, rows |-> rows, sql |-> <<>>]

\* The entry of a statement sent with this.db.query: it keeps the statement.
Sent(op, i, rows, sql) == [op |-> op, conf |-> i, rows |-> rows, sql |-> <<sql>>]

Engine == [model |-> model, exists |-> exists, cols |-> cols, table |-> table]

InFlight(s) == sess[s].pc \notin {"idle", "done"}

CanCall(s, data) ==
  /\ ~InFlight(s)
  /\ calls < MaxCalls + MaxBatch
  /\ Len(table) <= MaxRows

\* this.createTable(definition), up to its await.
createTable(definition, fault) ==
  /\ model' = <<definition>>
  /\ Sync(definition, fault)

\* this.clearModel(), up to its await.
clearModel(fault) ==
  /\ IF model # <<>> THEN Destroy(fault) ELSE UNCHANGED <<exists, cols, table>>
  /\ UNCHANGED model

clearModelOutcome(fault) ==
  IF model # <<>> THEN DestroyOutcome(fault) ELSE Resolved(<<>>)

clearModelLog(c) ==
  c.log \o <<Event("clearModel", 0, <<>>)>>
        \o (IF model # <<>> THEN <<Event("destroy", 0, <<>>)>> ELSE <<>>)

\* getSql up to its first await: with a pivot column without values the
\* distinct scan is sent, otherwise the query is assembled.
StartGetSql(c, fault) ==
  LET pivotConf == c.confs[c.i]
      pivotColumn == pivotConf.pivotColumn
  IN  IF pivotColumn.present /\ ~pivotColumn.hasValues
      THEN Merge(c, [pc |-> "getSqlCase",
                     pending |-> Query(DistinctSql(pivotColumn), fault),
                     log |-> Append(c.log, Sent("distinct", c.i, table,
                                                   DistinctSql(pivotColumn)))])
      ELSE Merge(c, [pc |-> "getSql",
                     pending |->
                       Resolved(getSql(pivotConf,
                                       IF pivotColumn.present
                                       THEN getSqlCaseValues(pivotColumn)
                                       ELSE <<>>))])

\* getSqlCase and getSql after the distinct scan has answered.
FinishGetSql(c) ==
  LET pivotConf == c.confs[c.i]
      sqlCases == getSqlCaseDiscovered(pivotConf.pivotColumn, c.pending.val)
  IN  Merge(c, [pc |-> "getSql",
                pending |-> IF sqlCases.ok
                            THEN Resolved(getSql(pivotConf, sqlCases.val))
                            ELSE sqlCases])

\* this.db.query(sql, ...), up to its await.
SendQuery(c, fault) ==
  Merge(c, [pc |-> "query",
            pending |-> Query(c.pending.val, fault),
            log |-> Append(c.log, Sent("query", c.i, table, c.pending.val))])

----------------------------------------------------------------------------
(* getPivotData *)

MsgGeneric == "An error occurred while processing your request. Please try again."
MsgSql == "An error occurred while executing the SQL query. Please check your inputs."
MsgConfig == "The provided configuration is invalid. Please check your inputs."

\* The catch block: the error thrown in place of the one caught.
CatchError(error) ==
  Error("Error",
        IF error.kind = "DatabaseError" THEN MsgSql
        ELSE IF error.kind = "ValidationError" THEN MsgConfig
        ELSE MsgGeneric)

\* The call, up to await validatePivotConfig.
GetPivotData(s, data, pivotConf) ==
  /\ CanCall(s, data)
  /\ calls' = calls + 1
  /\ sess' = [sess EXCEPT ![s] =
       IF data = <<>>
       THEN Merge(Idle, [kind |-> "single", id |-> calls + 1, pc |-> "done",
                         start |-> Engine,
                         confs |-> <<pivotConf>>, i |-> 1,
                         log |-> <<Event("getTableDefinition", 0, <<>>)>>,
                         errors |-> <<TypeError>>,
                         outcome |-> Threw(CatchError(TypeError))])
       ELSE LET definition == getTableDefinition(data[1])
            IN  Merge(Idle, [kind |-> "single", id |-> calls + 1,
                             start |-> Engine,
                             pc |-> "validate", data |-> data,
                             confs |-> <<pivotConf>>, i |-> 1,
                             definition |-> definition,
                             pending |-> validatePivotConfig(pivotConf, definition),
                             log |-> <<Event("getTableDefinition", 0, <<>>),
                                       Event("validate", 1, <<>>)>>])]
  /\ UNCHANGED <<model, exists, cols, table>>

\* await this.createTable(definition)
GetPivotData_createTable(s) ==
  LET c == sess[s] IN
  /\ c.kind = "single" /\ c.pc = "validate" /\ c.pending.ok
  /\ \E fault \in BOOLEAN :
       /\ createTable(c.definition, fault)
       /\ sess' = [sess EXCEPT ![s] =
            Merge(c, [pc |-> "createTable", pending |-> SyncOutcome(fault),
                      log |-> Append(c.log, Event("sync", 0, <<>>))])]
  /\ UNCHANGED calls

\* await this.model.bulkCreate(data, ...)
GetPivotData_bulkCreate(s) ==
  LET c == sess[s] IN
  /\ c.kind = "single" /\ c.pc = "createTable" /\ c.pending.ok
  /\ \E fault \in BOOLEAN :
       /\ BulkCreate(c.id, c.data, fault)
       /\ sess' = [sess EXCEPT ![s] =
            Merge(c, [pc |-> "bulkCreate", pending |-> BulkCreateOutcome(fault),
                      log |-> Append(c.log, Event("bulkCreate", 0, <<>>))])]
  /\ UNCHANGED <<model, calls>>

\* const sql = await this.getSql(pivotConf), up to its first await
GetPivotData_getSql(s) ==
  LET c == sess[s] IN
  /\ c.kind = "single" /\ c.pc = "bulkCreate" /\ c.pending.ok
  /\ \E fault \in BOOLEAN : sess' = [sess EXCEPT ![s] = StartGetSql(c, fault)]
  /\ UNCHANGED <<model, exists, cols, table, calls>>

\* getSqlCase resumes with the distinct values
GetPivotData_getSqlCase(s) ==
  LET c == sess[s] IN
  /\ c.kind = "single" /\ c.pc = "getSqlCase" /\ c.pending.ok
  /\ sess' = [sess EXCEPT ![s] = FinishGetSql(c)]
  /\ UNCHANGED <<model, exists, cols, table, calls>>

\* await this.db.query(sql, ...)
GetPivotData_query(s) ==
  LET c == sess[s] IN
  /\ c.kind = "single" /\ c.pc = "getSql" /\ c.pending.ok
  /\ \E fault \in BOOLEAN : sess' = [sess EXCEPT ![s] = SendQuery(c, fault)]
  /\ UNCHANGED <<model, exists, cols, table, calls>>

\* await this.clearModel()
GetPivotData_clearModel(s) ==
  LET c == sess[s] IN
  /\ c.kind = "single" /\ c.pc = "query" /\ c.pending.ok
  /\ \E fault \in BOOLEAN :
       /\ clearModel(fault)
       /\ sess' = [sess EXCEPT ![s] =
            Merge(c, [pc |-> "clearModel", pending |-> clearModelOutcome(fault),
                      results |-> <<c.pending.val>>, log |-> clearModelLog(c)])]
  /\ UNCHANGED calls

\* return pivotData
GetPivotData_return(s) ==
  LET c == sess[s] IN
  /\ c.kind = "single" /\ c.pc = "clearModel" /\ c.pending.ok
  /\ sess' = [sess EXCEPT ![s] =
       Merge(c, [pc |-> "done", outcome |-> Returned(c.results[1])])]
  /\ UNCHANGED <<model, exists, cols, table, calls>>

\* catch (error) { ... throw new Error(errorMessage) }
GetPivotData_catch(s) ==
  LET c == sess[s] IN
  /\ c.kind = "single" /\ InFlight(s) /\ ~c.pending.ok
  /\ sess' = [sess EXCEPT ![s] =
       Merge(c, [pc |-> "done", errors |-> Append(c.errors, c.pending.err),
                 outcome |-> Threw(CatchError(c.pending.err))])]
  /\ UNCHANGED <<model, exists, cols, table, calls>>

----------------------------------------------------------------------------
(* getPivotDataFromMultipleConfigurations *)

\* The head of the for loop: the next configuration is validated, or the
\* loop is over and the finally block calls clearModel.
NextConfiguration(c, fault) ==
  IF c.i < Len(c.confs)
  THEN Merge(c, [pc |-> "validate", i |-> c.i + 1,
                 pending |-> validatePivotConfig(c.confs[c.i + 1], c.definition),
                 log |-> Append(c.log, Event("validate", c.i + 1, <<>>))])
  ELSE Merge(c, [pc |-> "clearModel", pending |-> clearModelOutcome(fault),
                 log |-> clearModelLog(c)])

\* Faulty variant: an empty data is not stopped by schema inference; the
\* relation is created with no column of its own.
GetPivotDataFromMultipleConfigurations_NoSample(s, data, configArray) ==
  /\ CanCall(s, data)
  /\ calls' = calls + 1
  /\ \E fault \in BOOLEAN :
       LET definition == IF data = <<>> THEN <<>>
                         ELSE getTableDefinition(data[1]) IN
       /\ createTable(definition, fault)
       /\ sess' = [sess EXCEPT ![s] =
            Merge(Idle, [kind |-> "multi", id |-> calls + 1,
                         start |-> Engine,
                         pc |-> "createTable", data |-> data,
                         confs |-> configArray, definition |-> definition,
                         pending |-> SyncOutcome(fault),
                         log |-> <<Event("getTableDefinition", 0, <<>>),
                                   Event("sync", 0, <<>>)>>])]

\* The call, up to await this.createTable(definition).
GetPivotDataFromMultipleConfigurations(s, data, configArray) ==
  /\ CanCall(s, data)
  /\ calls' = calls + 1
  /\ IF data = <<>>
     THEN /\ sess' = [sess EXCEPT ![s] =
               Merge(Idle, [kind |-> "multi", id |-> calls + 1, pc |-> "done",
                            start |-> Engine,
                            confs |-> configArray,
                            log |-> <<Event("getTableDefinition", 0, <<>>)>>,
                            errors |-> <<TypeError>>,
                            outcome |-> Threw(TypeError)])]
          /\ UNCHANGED <<model, exists, cols, table>>
     ELSE \E fault \in BOOLEAN :
            LET definition == getTableDefinition(data[1]) IN
            /\ createTable(definition, fault)
            /\ sess' = [sess EXCEPT ![s] =
                 Merge(Idle, [kind |-> "multi", id |-> calls + 1,
                              start |-> Engine,
                              pc |-> "createTable", data |-> data,
                              confs |-> configArray, definition |-> definition,
                              pending |-> SyncOutcome(fault),
                              log |-> <<Event("getTableDefinition", 0, <<>>),
                                        Event("sync", 0, <<>>)>>])]

\* await this.model.bulkCreate(data, ...)
Multi_bulkCreate(s) ==
  LET c == sess[s] IN
  /\ c.kind = "multi" /\ c.pc = "createTable" /\ c.pending.ok
  /\ \E fault \in BOOLEAN :
       /\ BulkCreate(c.id, c.data, fault)
       /\ sess' = [sess EXCEPT ![s] =
            Merge(c, [pc |-> "bulkCreate", pending |-> BulkCreateOutcome(fault),
                      log |-> Append(c.log, Event("bulkCreate", 0, <<>>))])]
  /\ UNCHANGED <<model, calls>>

\* createTable or bulkCreate rejected: outside the try, the error leaves the
\* function as it is.
Multi_reject(s) ==
  LET c == sess[s] IN
  /\ c.kind = "multi" /\ c.pc \in {"createTable", "bulkCreate"} /\ ~c.pending.ok
  /\ sess' = [sess EXCEPT ![s] =
       Merge(c, [pc |-> "done", errors |-> Append(c.errors, c.pending.err),
                 outcome |-> Threw(c.pending.err)])]
  /\ UNCHANGED <<model, exists, cols, table, calls>>

\* try { const results = []; for (const pivotConf of configArray) ...
Multi_try(s) ==
  LET c == sess[s] IN
  /\ c.kind = "multi" /\ c.pc = "bulkCreate" /\ c.pending.ok
  /\ \E fault \in BOOLEAN :
       /\ IF c.i < Len(c.confs)
          THEN UNCHANGED <<model, exists, cols, table>>
          ELSE clearModel(fault)
       /\ sess' = [sess EXCEPT ![s] = NextConfiguration(c, fault)]
  /\ UNCHANGED calls

\* Faulty variant: getSql is reached although validatePivotConfig rejected.
Multi_getSql_Unvalidated(s) ==
  LET c == sess[s] IN
  /\ c.kind = "multi" /\ c.pc = "validate"
  /\ \E fault \in BOOLEAN : sess' = [sess EXCEPT ![s] = StartGetSql(c, fault)]
  /\ UNCHANGED <<model, exists, cols, table, calls>>

\* const sql = await this.getSql(pivotConf), up to its first await
Multi_getSql(s) ==
  LET c == sess[s] IN
  /\ c.kind = "multi" /\ c.pc = "validate" /\ c.pending.ok
  /\ \E fault \in BOOLEAN : sess' = [sess EXCEPT ![s] = StartGetSql(c, fault)]
  /\ UNCHANGED <<model, exists, cols, table, calls>>

\* getSqlCase resumes with the distinct values
Multi_getSqlCase(s) ==
  LET c == sess[s] IN
  /\ c.kind = "multi" /\ c.pc = "getSqlCase" /\ c.pending.ok
  /\ sess' = [sess EXCEPT ![s] = FinishGetSql(c)]
  /\ UNCHANGED <<model, exists, cols, table, calls>>

\* const result = await this.db.query(sql, ...)
Multi_query(s) ==
  LET c == sess[s] IN
  /\ c.kind = "multi" /\ c.pc = "getSql" /\ c.pending.ok
  /\ \E fault \in BOOLEAN : sess' = [sess EXCEPT ![s] = SendQuery(c, fault)]
  /\ UNCHANGED <<model, exists, cols, table, calls>>

\* Faulty variant: results.unshift(result).
Multi_push_Unshift(s) ==
  LET c == sess[s]
      pushed == Merge(c, [results |-> <<c.pending.val>> \o c.results])
  IN
  /\ c.kind = "multi" /\ c.pc = "query" /\ c.pending.ok
  /\ \E fault \in BOOLEAN :
       /\ IF c.i < Len(c.confs)
          THEN UNCHANGED <<model, exists, cols, table>>
          ELSE clearModel(fault)
       /\ sess' = [sess EXCEPT ![s] = NextConfiguration(pushed, fault)]
  /\ UNCHANGED calls

\* Faulty variant: the relation is truncated after every configuration.
Multi_push_ClearEach(s) ==
  LET c == sess[s]
      pushed == Merge(c, [results |-> Append(c.results, c.pending.val),
                          log |-> IF c.i < Len(c.confs) THEN clearModelLog(c)
                                  ELSE c.log])
  IN
  /\ c.kind = "multi" /\ c.pc = "query" /\ c.pending.ok
  /\ \E fault \in BOOLEAN :
       /\ clearModel(fault)
       /\ sess' = [sess EXCEPT ![s] = NextConfiguration(pushed, fault)]
  /\ UNCHANGED calls

\* results.push(result), then the next iteration or return results
Multi_push(s) ==
  LET c == sess[s]
      pushed == Merge(c, [results |-> Append(c.results, c.pending.val)])
  IN
  /\ c.kind = "multi" /\ c.pc = "query" /\ c.pending.ok
  /\ \E fault \in BOOLEAN :
       /\ IF c.i < Len(c.confs)
          THEN UNCHANGED <<model, exists, cols, table>>
          ELSE clearModel(fault)
       /\ sess' = [sess EXCEPT ![s] = NextConfiguration(pushed, fault)]
  /\ UNCHANGED calls

\* An await inside the try rejected: finally { await this.clearModel() }
Multi_finally(s) ==
  LET c == sess[s] IN
  /\ c.kind = "multi"
  /\ c.pc \in {"validate", "getSqlCase", "getSql", "query"}
  /\ ~c.pending.ok
  /\ \E fault \in BOOLEAN :
       /\ clearModel(fault)
       /\ sess' = [sess EXCEPT ![s] =
            Merge(c, [pc |-> "clearModel", saved |-> c.pending.err,
                      errors |-> Append(c.errors, c.pending.err),
                      pending |-> clearModelOutcome(fault),
                      log |-> clearModelLog(c)])]
  /\ UNCHANGED calls

\* Faulty variant: after a failed configuration the results collected so
\* far are returned.
Multi_settle_PartialResults(s) ==
  LET c == sess[s] IN
  /\ c.kind = "multi" /\ c.pc = "clearModel"
  /\ sess' = [sess EXCEPT ![s] =
       Merge(c, [pc |-> "done",
                 errors |-> IF c.pending.ok THEN c.errors
                            ELSE Append(c.errors, c.pending.err),
                 outcome |-> IF ~c.pending.ok THEN Threw(c.pending.err)
                             ELSE Returned(c.results)])]
  /\ UNCHANGED <<model, exists, cols, table, calls>>

\* Faulty variant: the error that entered the finally block wins over clearModel's.
Multi_settle_FirstErrorWins(s) ==
  LET c == sess[s] IN
  /\ c.kind = "multi" /\ c.pc = "clearModel"
  /\ sess' = [sess EXCEPT ![s] =
       Merge(c, [pc |-> "done",
                 errors |-> IF c.pending.ok THEN c.errors
                            ELSE Append(c.errors, c.pending.err),
                 outcome |-> IF c.saved # NoError THEN Threw(c.saved)
                             ELSE IF ~c.pending.ok THEN Threw(c.pending.err)
                             ELSE Returned(c.results)])]
  /\ UNCHANGED <<model, exists, cols, table, calls>>

\* The finally block is over: its own error, else the error it interrupted,
\* else the results.
Multi_settle(s) ==
  LET c == sess[s] IN
  /\ c.kind = "multi" /\ c.pc = "clearModel"
  /\ sess' = [sess EXCEPT ![s] =
       Merge(c, [pc |-> "done",
                 errors |-> IF c.pending.ok THEN c.errors
                            ELSE Append(c.errors, c.pending.err),
                 outcome |-> IF ~c.pending.ok THEN Threw(c.pending.err)
                             ELSE IF c.saved # NoError THEN Threw(c.saved)
                             ELSE Returned(c.results)])]
  /\ UNCHANGED <<model, exists, cols, table, calls>>

----------------------------------------------------------------------------
(* Specifications *)

BatchConfigs == {cfgSum, cfgPivot, cfgBadAgg}

ConfigArrays ==
  UNION {[1..n -> BatchConfigs] : n \in 0..MaxBatch}

Init ==
  /\ model = <<>>
  /\ exists = FALSE
  /\ cols = {}
  /\ table = <<>>
  /\ sess = [s \in Sessions |-> Idle]
  /\ calls = 0

\* A caller calls one of the two entry points.
CallWith(s, datasets, configs, arrays) ==
  \/ \E data \in datasets, pivotConf \in configs : GetPivotData(s, data, pivotConf)
  \/ \E data \in datasets, configArray \in arrays :
       GetPivotDataFromMultipleConfigurations(s, data, configArray)

Call(s) == CallWith(s, DataSets, Configs, ConfigArrays)

\* A call in flight goes on from the await it stands at.
ResumeGetPivotData(s) ==
  \/ GetPivotData_createTable(s)
  \/ GetPivotData_bulkCreate(s)
  \/ GetPivotData_getSql(s)
  \/ GetPivotData_getSqlCase(s)
  \/ GetPivotData_query(s)
  \/ GetPivotData_clearModel(s)
  \/ GetPivotData_return(s)
  \/ GetPivotData_catch(s)

ResumeMultiple(s) ==
  \/ Multi_bulkCreate(s)
  \/ Multi_reject(s)
  \/ Multi_try(s)
  \/ Multi_getSql(s)
  \/ Multi_getSqlCase(s)
  \/ Multi_query(s)
  \/ Multi_push(s)
  \/ Multi_finally(s)
  \/ Multi_settle(s)

Resume(s) == ResumeGetPivotData(s) \/ ResumeMultiple(s)

\* Callers that await each call before making the next.
Next ==
  \/ calls < MaxCalls /\ Call(1)
  \/ Resume(1)

Spec == Init /\ [][Next]_vars

\* Two callers of the exported instance, the second calling while the first
\* call is in flight; the calls interleave at their awaits.
ConcDataSets == {<<r1>>, <<r2, r1>>}
ConcConfigs == {cfgSum, cfgPivot}
ConcArrays == {<<>>, <<cfgPivot>>, <<cfgSum, cfgBadAgg>>}

NextConc ==
  \/ calls = 0 /\ CallWith(1, ConcDataSets, ConcConfigs, ConcArrays)
  \/ calls = 1 /\ InFlight(1) /\ CallWith(2, ConcDataSets, ConcConfigs, ConcArrays)
  \/ \E s \in Sessions : Resume(s)

SpecConc == Init /\ [][NextConc]_vars

\* A batch against the same configurations run one by one, as in the
\* README's getContractsFlow.  Caller 1 makes any call and then a batch; once
\* the batch has returned, slot 2 keeps it (with the instance it left), the
\* instance is put back as the batch found it, and caller 1 runs one
\* getPivotData per configuration on the same records, collecting the rows.
EqRewind ==
  /\ sess[2].kind = "none"
  /\ sess[1].kind = "multi" /\ sess[1].outcome.state = "returned"
  /\ sess[1].confs # <<>>
  /\ sess' = [sess EXCEPT ![2] = Merge(sess[1], [final |-> Engine]),
                          ![1] = Idle]
  /\ model' = sess[1].start.model
  /\ exists' = sess[1].start.exists
  /\ cols' = sess[1].start.cols
  /\ table' = sess[1].start.table
  /\ UNCHANGED calls

\* await pivotTable.getPivotData(data, pivotConf), for the next configuration
EqSingle ==
  /\ sess[2].kind = "multi" /\ sess[1].pc = "idle"
  /\ Len(sess[2].singles) < Len(sess[2].confs)
  /\ GetPivotData(1, sess[2].data, sess[2].confs[Len(sess[2].singles) + 1])

\* the rows getPivotData returned are kept
EqCollect ==
  /\ sess[2].kind = "multi"
  /\ sess[1].kind = "single" /\ sess[1].outcome.state = "returned"
  /\ sess' = [sess EXCEPT ![2].singles = Append(@, sess[1].outcome.value),
                          ![1] = Idle]
  /\ UNCHANGED <<model, exists, cols, table, calls>>

NextEq ==
  \/ sess[2].kind = "none" /\ calls < MaxPrior + 1 /\ Call(1)
  \/ Resume(1)
  \/ EqRewind
  \/ EqSingle
  \/ EqCollect

SpecEq == Init /\ [][NextEq]_vars

----------------------------------------------------------------------------
(* Properties *)

Finished(s) == sess[s].pc = "done"

\* The positions of a call's log holding one of the operations ops.
Ops(c, ops) == {k \in 1..Len(c.log) : c.log[k].op \in ops}

Queries == {"distinct", "query"}

\* The rows a call loads.
OwnRows(c) == [i \in 1..Len(c.data) |-> [owner |-> c.id, rec |-> c.data[i]]]

\* What a configuration yields on rows: its buckets resolved, its query
\* assembled and evaluated.
PivotOf(pivotConf, rows) ==
  LET pivotColumn == pivotConf.pivotColumn
      selectCase ==
        IF ~pivotColumn.present THEN <<>>
        ELSE IF pivotColumn.hasValues THEN getSqlCaseValues(pivotColumn)
        ELSE getSqlCaseDiscovered(
               pivotColumn, Distinct(pivotColumn.caseColumn, rows)).val
  IN  SelectRows(getSql(pivotConf, selectCase), rows)

\* C1: every finished getPivotData call has executed clearModel, whatever
\* its exit path (return or throw).
C1_ClearOnEveryExit ==
  \A s \in Sessions :
    (sess[s].kind = "single" /\ Finished(s))
      => Ops(sess[s], {"clearModel"}) # {}

\* C2: every finished getPivotDataFromMultipleConfigurations call has
\* executed clearModel exactly once, after its last query.
C2_ClearExactlyOnce ==
  \A s \in Sessions :
    (sess[s].kind = "multi" /\ Finished(s))
      => /\ Cardinality(Ops(sess[s], {"clearModel"})) = 1
         /\ \A k \in Ops(sess[s], {"clearModel"}) :
              \A j \in Ops(sess[s], Queries) : j < k

\* C3: every distinct scan and every aggregate query of a call reads exactly
\* the rows that call loaded, also while another call is in flight.
C3_SessionsIsolated ==
  \A s \in Sessions :
    \A k \in Ops(sess[s], Queries) : sess[s].log[k].rows = OwnRows(sess[s])

\* C4: whenever no call is in flight the relation temp_rows holds no rows.
C4_EmptyBetweenSessions ==
  (\A s \in Sessions : ~InFlight(s)) => table = <<>>

\* C5: in a call, every query is sent after bulkCreate and finds the call's
\* rows loaded; the operations of configuration i all precede those of
\* configuration i+1; and the i-th element a batch returns is what the i-th
\* configuration yields on the rows its query read.
C5_LoadThenQueriesInOrder ==
  \A s \in Sessions :
    LET c == sess[s] IN
    /\ \A k \in Ops(c, Queries) :
         /\ \E j \in Ops(c, {"bulkCreate"}) : j < k
         /\ SelectSeq(c.log[k].rows, LAMBDA row : row.owner = c.id) = OwnRows(c)
    /\ \A j, k \in Ops(c, Queries \cup {"validate"}) :
         j < k => c.log[j].conf <= c.log[k].conf
    /\ (c.kind = "multi" /\ c.outcome.state = "returned")
         => /\ Len(c.outcome.value) = Len(c.confs)
            /\ \A i \in 1..Len(c.confs) :
                 \E k \in Ops(c, {"query"}) :
                   /\ c.log[k].conf = i
                   /\ c.outcome.value[i] = PivotOf(c.confs[i], c.log[k].rows)

\* C5 witness: a batch of two configurations has returned two different
\* result sets.
C5_Witness ==
  \E s \in Sessions :
    /\ sess[s].kind = "multi" /\ sess[s].outcome.state = "returned"
    /\ Len(sess[s].confs) = 2
    /\ sess[s].outcome.value[1] # sess[s].outcome.value[2]

\* C6: at the moment validatePivotConfig rejects a configuration the call
\* has neither created the relation nor loaded a record.
C6_RejectedBeforeCreate ==
  \A s \in Sessions :
    (sess[s].pc = "validate" /\ ~sess[s].pending.ok)
      => Ops(sess[s], {"sync", "bulkCreate"}) = {}

\* C7: no distinct scan and no aggregate query is ever sent for a
\* configuration that validatePivotConfig rejects.
C7_InvalidNeverQueried ==
  \A s \in Sessions :
    \A k \in Ops(sess[s], Queries) :
      validatePivotConfig(sess[s].confs[sess[s].log[k].conf],
                          sess[s].definition).ok

\* C7 witness: a batch has finished whose second configuration was rejected
\* after its first was queried.
C7_Witness ==
  \E s \in Sessions :
    LET c == sess[s] IN
    /\ c.kind = "multi" /\ Finished(s) /\ Len(c.confs) = 2
    /\ ~validatePivotConfig(c.confs[2], c.definition).ok
    /\ \E k \in Ops(c, {"validate"}) : c.log[k].conf = 2
    /\ \E k \in Ops(c, {"query"}) : c.log[k].conf = 1

\* C8: every configuration a query is sent for has its pivot column's
\* caseColumn and sumColumn in the inferred schema.
C8_PivotColumnsInSchema ==
  \A s \in Sessions :
    \A k \in Ops(sess[s], Queries) :
      LET pivotColumn == sess[s].confs[sess[s].log[k].conf].pivotColumn IN
      pivotColumn.present
        => /\ HasOwnProperty(sess[s].definition, pivotColumn.caseColumn)
           /\ HasOwnProperty(sess[s].definition, pivotColumn.sumColumn)

IsClearFailure(err) == err.kind = "DatabaseError" /\ err.message = "destroy"

\* C9: once a batch that returned has been rerun as one getPivotData call
\* per configuration from the same idle instance and on the same records,
\* the i-th call returned the batch's i-th element, and the runs left the
\* instance and its relation in the same state.
C9_BatchEqualsSingles ==
  (sess[2].kind = "multi" /\ Len(sess[2].singles) = Len(sess[2].confs))
    => /\ \A i \in 1..Len(sess[2].confs) :
            sess[2].singles[i] = sess[2].outcome.value[i]
       /\ sess[2].final = Engine

\* C10: a call whose clearModel failed throws, and when an earlier stage had
\* failed too, the error thrown is clearModel's.
C10_ClearFailureReported ==
  \A s \in Sessions :
    LET c == sess[s] IN
    (Finished(s) /\ c.errors # <<>> /\ IsClearFailure(c.errors[Len(c.errors)]))
      => /\ c.outcome.state = "threw"
         /\ Len(c.errors) > 1 => c.outcome.err = c.errors[Len(c.errors)]

\* C10 witness: a call has finished after a failed query and a failed
\* clearModel.
C10_Witness ==
  \E s \in Sessions :
    LET c == sess[s] IN
    /\ Finished(s) /\ Len(c.errors) = 2
    /\ c.errors[1].message = "select"
    /\ IsClearFailure(c.errors[2])

----------------------------------------------------------------------------
(* Error outcomes *)

\* The kind of failure an error raised inside a call stands for.
FailureKind(err) ==
  CASE err = TypeError -> "empty dataset"
    [] err.clause # "" -> "invalid field"
    [] err = BucketLimitError -> "bucket limit"
    [] err.kind = "DatabaseError" -> "storage"
    [] OTHER -> "other"

\* One failure of each kind.
FailureCauses ==
  {TypeError, InvalidField("aggregation", W("nope")), BucketLimitError,
   DatabaseError("select")}

\* What the entry point of call c hands its caller when err is raised in it.
Surfaced(c, err) == IF c.kind = "single" THEN CatchError(err) ELSE err

\* C11: the error a failed call hands its caller is not the error the same
\* entry point hands out for a failure of another kind: empty dataset,
\* invalid field, bucket limit and storage fault each surface differently.
C11_FailureKindsDistinct ==
  \A s \in Sessions :
    LET c == sess[s] IN
    (Finished(s) /\ c.outcome.state = "threw")
      => \A other \in FailureCauses :
           FailureKind(other) # FailureKind(c.errors[1])
             => c.outcome.err # Surfaced(c, other)

\* C12: the error a failed call hands its caller is never an error object
\* the engine raised in it (at sync, bulkCreate, the distinct scan, the
\* aggregate query or destroy): the caller gets an error made by PivotTable.
C12_EngineErrorsWrapped ==
  \A s \in Sessions :
    LET c == sess[s] IN
    (Finished(s) /\ c.outcome.state = "threw")
      => \A k \in 1..Len(c.errors) :
           c.errors[k].kind = "DatabaseError" => c.outcome.err # c.errors[k]

----------------------------------------------------------------------------
(* Empty data *)

\* The operations that reach the engine.
EngineOps == {"sync", "bulkCreate", "distinct", "query", "destroy"}

\* C13: a call of either entry point with an empty data has failed with the
\* error of schema inference on a missing sample, and has sent the engine no
\* create, load, query or truncate: instance and relation are as it found
\* them.
C13_EmptyDataFailsUntouched ==
  \A s \in Sessions :
    LET c == sess[s] IN
    (c.kind # "none" /\ c.data = <<>>)
      => /\ Finished(s)
         /\ c.errors = <<TypeError>>
         /\ c.outcome = Threw(Surfaced(c, TypeError))
         /\ Ops(c, EngineOps) = {}
         /\ c.start = Engine

\* C13 witness: a call with an empty data has finished on an instance whose
\* relation an earlier call had created.
C13_Witness ==
  \E s \in Sessions :
    /\ sess[s].kind # "none" /\ sess[s].data = <<>> /\ Finished(s)
    /\ sess[s].start.model # <<>> /\ sess[s].start.exists

----------------------------------------------------------------------------
(* The bucket limit: calls on records with 150 and with 151 distinct values *)
(* of the case column.                                                      *)

\* n records, each with a month of its own.
Many(n) == [i \in 1..n |-> [month |-> S(ToString(i)), amount |-> N(1)]]

LimitDataSets ==
  {Many(MaxCaseValues), Many(MaxCaseValues + 1),
   Append(Many(MaxCaseValues), [month |-> S("1"), amount |-> N(2)])}

LimitArrays == {<<cfgPivot>>, <<cfgSum, cfgPivot>>}

\* Two callers: the first calls either entry point, the second calls
\* getPivotData once the first has its result.
NextLimit ==
  \/ calls = 0 /\ CallWith(1, LimitDataSets, {cfgPivot}, LimitArrays)
  \/ /\ Finished(1) /\ sess[2].kind = "none"
     /\ \E data \in LimitDataSets : GetPivotData(2, data, cfgPivot)
  \/ Resume(1)
  \/ Resume(2)

SpecLimit == Init /\ [][NextLimit]_vars

\* The values of a configuration's case column among rows.
CaseValuesIn(pivotConf, rows) ==
  {rows[i].rec[pivotConf.pivotColumn.caseColumn[1]].s : i \in 1..Len(rows)}

\* The conditional sums of an assembled query.
CasesOf(sql) == SelectSeq(sql.selectArr, LAMBDA e : e.kind = "case")

\* C14: when the distinct scan of a pivot column without values has
\* answered, more than 150 values make getSqlCase fail with the bucket-limit
\* error and 150 or fewer give one conditional sum per value; and no
\* aggregate query is sent for a configuration whose scan met more than 150
\* values.
C14_BucketLimit ==
  \A s \in Sessions :
    LET c == sess[s] IN
    /\ (c.pc = "getSql" /\ c.log[Len(c.log)].op = "distinct")
         => LET found == CaseValuesIn(c.confs[c.i], c.log[Len(c.log)].rows)
            IN  IF Cardinality(found) > 150
                THEN c.pending = Rejected(BucketLimitError)
                ELSE /\ c.pending.ok
                     /\ Len(CasesOf(c.pending.val)) = Cardinality(found)
                     /\ \A v \in found :
                          \E i \in 1..Len(CasesOf(c.pending.val)) :
                            /\ CasesOf(c.pending.val)[i].values = <<v>>
                            /\ CasesOf(c.pending.val)[i].alias = W(v)
    /\ \A k \in Ops(c, {"query"}), j \in Ops(c, {"distinct"}) :
         c.log[j].conf = c.log[k].conf
           => Cardinality(CaseValuesIn(c.confs[c.log[j].conf], c.log[j].rows))
                <= 150

\* C14 witness: one call has returned after a scan that met exactly 150
\* values, another has failed with the bucket-limit error.
C14_Witness ==
  \E s, t \in Sessions :
    /\ Finished(s) /\ sess[s].outcome.state = "returned"
    /\ \E k \in Ops(sess[s], {"distinct"}) :
         Cardinality(CaseValuesIn(sess[s].confs[sess[s].log[k].conf],
                                  sess[s].log[k].rows)) = 150
    /\ Finished(t) /\ BucketLimitError \in Range(sess[t].errors)

----------------------------------------------------------------------------
(* Configurations at large: getPivotData called once on the same records    *)
(* with every configuration of a bounded space.                             *)

AggEntries == {W("amount"), W("nope"), <<"amount", "AS", "total">>}

GroupEntries ==
  {W("month"), W("nope"), W("null"),
   <<"month", "AS", "name">>, <<"null", "AS", "parentId">>,
   <<"nope", "AS", "x">>, <<"month", "||", "amount">>}

SortEntries == {W("month"), W("nope"), <<"month", "DESC">>}

PivotColumns ==
  {NoPivot, Pivot("month", "amount"),
   PivotValues("month", "amount",
               <<[key |-> "q", value |-> <<"m1", "m2">>],
                 [key |-> "x", value |-> <<OHara>>]>>)}

\* The sequences over a set of at most n entries.
Lists(entries, n) == UNION {[1..k -> entries] : k \in 0..n}
OptionalLists(entries, n) == {NoList} \cup {List(l) : l \in Lists(entries, n)}

ConfigData == <<r2, r1>>

\* getPivotData called with a configuration of at most MaxFields entries.
CallConfig(s) ==
  \E a \in Lists(AggEntries, MaxFields) :
    \E g \in OptionalLists(GroupEntries, MaxFields - Len(a)) :
      \E sb \in OptionalLists(SortEntries, MaxFields - Len(a) - Len(g.items)) :
        \E p \in PivotColumns :
          GetPivotData(s, ConfigData, IPivotConf(p, a, g, sb))

NextConfig ==
  \/ calls = 0 /\ CallConfig(1)
  \/ ResumeGetPivotData(1)

SpecConfig == Init /\ [][NextConfig]_vars

\* The positions of an entry's words that are ' AS ' separators.
Separators(item) == {k \in 2..(Len(item) - 1) : item[k] = "AS"}

\* The part of an entry before its alias: the entry when it has none.
PreAlias(item) ==
  IF Separators(item) = {} THEN item
  ELSE SubSeq(item, 1, (CHOOSE k \in Separators(item) :
                          \A j \in Separators(item) : k <= j) - 1)

\* The alias of an entry: the pre-alias part when it has none.
AliasOf(item) ==
  IF Separators(item) = {} THEN item
  ELSE SubSeq(item, Len(PreAlias(item)) + 2, Len(item))

InSchema(c, column) == Len(column) = 1 /\ column[1] \in DOMAIN c.definition

\* C15: an aggregation list whose entries all have a source column (the part
\* before ' AS ') of the schema is not rejected by validation for its
\* aggregation, and getSql emits each entry 'c AS a' as SUM(c) AS a and each
\* entry 'c' as SUM(c) AS c.
C15_AggregationAlias ==
  \A s \in Sessions :
    LET c == sess[s]
        aggregation == IF c.i > 0 THEN c.confs[c.i].aggregation ELSE <<>>
    IN
    /\ (c.pc = "validate"
          /\ \A i \in 1..Len(aggregation) : InSchema(c, PreAlias(aggregation[i])))
         => ~(~c.pending.ok /\ c.pending.err.clause = "aggregation")
    /\ (c.pc = "getSql" /\ c.pending.ok)
         => \A i \in 1..Len(aggregation) :
              c.pending.val.selectArr[Len(c.pending.val.selectArr)
                                        - Len(aggregation) + i]
                = SumExpr(PreAlias(aggregation[i]), AliasOf(aggregation[i]))

\* The entries validation goes through, in its order, each with its clause.
Checked(pivotConf) ==
  [i \in 1..Len(pivotConf.aggregation) |->
     [clause |-> "aggregation", entry |-> pivotConf.aggregation[i]]]
  \o [i \in 1..Len(pivotConf.groupBy.items) |->
        [clause |-> "groupBy", entry |-> pivotConf.groupBy.items[i]]]
  \o [i \in 1..Len(pivotConf.sortBy.items) |->
        [clause |-> "sortBy", entry |-> pivotConf.sortBy.items[i]]]

\* An entry that breaks the rule of its clause.
Violates(c, x) ==
  IF x.clause \in {"aggregation", "sortBy"} THEN ~InSchema(c, x.entry)
  ELSE IF Separators(x.entry) = {}
       THEN ~(InSchema(c, x.entry) \/ Len(x.entry) > 1)
       ELSE ~(\/ InSchema(c, PreAlias(x.entry))
              \/ PreAlias(x.entry) = <<"null">>
              \/ Len(PreAlias(x.entry)) > 1)

\* C16: validatePivotConfig accepts exactly when every aggregation entry is
\* a schema column, every groupBy entry without alias is a schema column or
\* holds a blank, every aliased groupBy entry has a schema column, null or
\* an expression with a blank before its alias, and every sortBy entry is a
\* schema column; when it rejects, it reports the first violating entry in
\* the order aggregation, groupBy, sortBy (of a groupBy entry, the part
\* before the alias).
C16_ValidationRules ==
  \A s \in Sessions :
    LET c == sess[s] IN
    c.pc = "validate"
      => LET entries == Checked(c.confs[c.i])
             bad == {k \in 1..Len(entries) : Violates(c, entries[k])}
         IN  IF bad = {} THEN c.pending.ok
             ELSE LET first == entries[CHOOSE k \in bad : \A j \in bad : k <= j]
                  IN  /\ ~c.pending.ok
                      /\ c.pending.err.clause = first.clause
                      /\ c.pending.err.field =
                           IF first.clause = "groupBy" THEN PreAlias(first.entry)
                           ELSE first.entry

\* C16 witness: validation has rejected a configuration for an aliased
\* groupBy entry that comes after an accepted aliased null, while a sortBy
\* entry violates its rule too.
C16_Witness ==
  \E s \in Sessions :
    LET c == sess[s] IN
    /\ c.pc = "validate" /\ ~c.pending.ok
    /\ c.pending.err.clause = "groupBy"
    /\ c.confs[c.i].groupBy.items = <<<<"null", "AS", "parentId">>,
                                      <<"nope", "AS", "x">>>>
    /\ c.confs[c.i].sortBy.items = <<<<"month", "DESC">>>>

\* The text pieces of a statement that come from bucket values, bucket
\* labels and groupBy entries.
Interpolated(sql) ==
  UNION {Range(sql.selectArr[i].values) \cup Range(sql.selectArr[i].alias) :
           i \in {j \in 1..Len(sql.selectArr) : sql.selectArr[j].kind = "case"}}
  \cup UNION {Range(sql.groupFieldsSql[i]) : i \in 1..Len(sql.groupFieldsSql)}
  \cup UNION {Range(sql.groupFields[i]) : i \in 1..Len(sql.groupFields)}

\* C17: no aggregate query sent to the engine holds a quote taken as it is
\* from a bucket value, a bucket label or a groupBy entry.
C17_NoRawQuotes ==
  \A s \in Sessions :
    \A k \in Ops(sess[s], {"query"}) :
      \A piece \in Interpolated(sess[s].log[k].sql[1]) : ~HasQuote(piece)

----------------------------------------------------------------------------
(* clearModel on its own: between the calls of the entry points the private *)
(* method is invoked directly, in whatever state the instance is.           *)

\* await this.clearModel(), the engine answering without a fault of its own.
ClearModelCall(s) ==
  /\ ~InFlight(s)
  /\ calls' = calls + 1
  /\ clearModel(FALSE)
  /\ sess' = [sess EXCEPT ![s] =
       Merge(Idle, [kind |-> "clearModel", id |-> calls + 1, pc |-> "done",
                    start |-> Engine, log |-> clearModelLog(Idle),
                    errors |-> IF clearModelOutcome(FALSE).ok THEN <<>>
                               ELSE <<clearModelOutcome(FALSE).err>>,
                    outcome |-> IF clearModelOutcome(FALSE).ok
                                THEN Returned(<<>>)
                                ELSE Threw(clearModelOutcome(FALSE).err)])]

NextClear ==
  \/ calls < MaxCalls /\ Call(1)
  \/ calls < MaxCalls /\ ClearModelCall(1)
  \/ Resume(1)

SpecClear == Init /\ [][NextClear]_vars

\* C18: clearModel does not fail, whatever the state it is called in; called
\* while the relation has never been created it sends the engine nothing;
\* called on a relation without rows it leaves the relation without rows
\* and its definition and the model as they were.
C18_ClearSafeInEveryState ==
  \A s \in Sessions :
    LET c == sess[s] IN
    c.kind = "clearModel"
      => /\ c.outcome.state = "returned"
         /\ ~c.start.exists => Ops(c, EngineOps) = {}
         /\ (c.start.exists /\ c.start.table = <<>>)
              => /\ table = <<>> /\ exists
                 /\ cols = c.start.cols /\ model = c.start.model

\* The row of rows where a value of the case column is first met.
FirstMet(pivotConf, rows, v) ==
  CHOOSE r \in 1..Len(rows) :
    /\ rows[r].rec[pivotConf.pivotColumn.caseColumn[1]].s = v
    /\ \A q \in 1..(r - 1) :
         rows[q].rec[pivotConf.pivotColumn.caseColumn[1]].s # v

\* C19: in an assembled query the select list is the groupBy entries in
\* full and in their order, then one conditional sum per bucket (declared
\* values in their order, discovered values in the order the scan met
\* them), then one SUM per aggregation entry in their order; GROUP BY lists
\* the pre-alias parts of the groupBy entries and ORDER BY the sortBy
\* entries as they are.
C19_SelectListOrder ==
  \A s \in Sessions :
    LET c == sess[s] IN
    (c.pc = "getSql" /\ c.pending.ok)
      => LET pivotConf == c.confs[c.i]
             pivotColumn == pivotConf.pivotColumn
             sql == c.pending.val
             buckets == Len(sql.selectArr) - Len(pivotConf.aggregation)
             scanned == c.log[Len(c.log)].rows
         IN  /\ sql.groupFieldsSql = pivotConf.groupBy.items
             /\ \A i \in 1..buckets : sql.selectArr[i].kind = "case"
             /\ pivotColumn.present = (buckets > 0)
             /\ (pivotColumn.present /\ pivotColumn.hasValues)
                  => /\ buckets = Len(pivotColumn.values)
                     /\ \A i \in 1..buckets :
                          /\ sql.selectArr[i].values = pivotColumn.values[i].value
                          /\ sql.selectArr[i].alias = W(pivotColumn.values[i].key)
             /\ (pivotColumn.present /\ ~pivotColumn.hasValues)
                  => /\ {sql.selectArr[i].values : i \in 1..buckets}
                          = {<<v>> : v \in CaseValuesIn(pivotConf, scanned)}
                     /\ \A i, j \in 1..buckets :
                          i < j => FirstMet(pivotConf, scanned,
                                            sql.selectArr[i].values[1])
                                     < FirstMet(pivotConf, scanned,
                                                sql.selectArr[j].values[1])
             /\ \A i \in 1..Len(pivotConf.aggregation) :
                  /\ sql.selectArr[buckets + i].kind = "sum"
                  /\ sql.selectArr[buckets + i].column
                       = PreAlias(pivotConf.aggregation[i])
                  /\ sql.selectArr[buckets + i].alias
                       = AliasOf(pivotConf.aggregation[i])
             /\ sql.hasGroupBy = pivotConf.groupBy.present
             /\ sql.groupFields = [i \in 1..Len(pivotConf.groupBy.items) |->
                                     PreAlias(pivotConf.groupBy.items[i])]
             /\ sql.hasOrderBy = pivotConf.sortBy.present
             /\ sql.orderBy = pivotConf.sortBy.items

\* C19 witness: a query has been assembled from an aliased groupBy entry,
\* two discovered buckets, one aggregation entry and one sortBy entry.
C19_Witness ==
  \E s \in Sessions :
    LET c == sess[s] IN
    /\ c.pc = "getSql" /\ c.pending.ok
    /\ c.confs[c.i].groupBy.items = <<<<"month", "AS", "name">>>>
    /\ c.confs[c.i].pivotColumn.present /\ ~c.confs[c.i].pivotColumn.hasValues
    /\ Len(c.pending.val.selectArr) = 3
    /\ c.confs[c.i].sortBy.items = <<W("month")>>

----------------------------------------------------------------------------
(* One load per batch *)

\* The number of times a call has done one of the operations ops.
Times(c, ops) == Cardinality(Ops(c, ops))

\* C20: a batch call infers the schema once and sends at most one sync and
\* one bulkCreate, exactly one of each once it has reached its first
\* configuration, however many configurations it has; every bulkCreate comes
\* before, and every destroy after, all the validations and queries of the
\* call.
C20_OneLoadPerBatch ==
  \A s \in Sessions :
    LET c == sess[s] IN
    c.kind = "multi"
      => /\ Times(c, {"getTableDefinition"}) = 1
         /\ Times(c, {"sync"}) <= 1
         /\ Times(c, {"bulkCreate"}) <= 1
         /\ Ops(c, {"validate"} \cup Queries) # {}
              => Times(c, {"sync"}) = 1 /\ Times(c, {"bulkCreate"}) = 1
         /\ \A j \in Ops(c, {"validate"} \cup Queries) :
              /\ \A k \in Ops(c, {"sync", "bulkCreate"}) : k < j
              /\ \A k \in Ops(c, {"clearModel", "destroy"}) : j < k

\* C20 witness: a batch call of two configurations has returned, both
\* queries sent.
C20_Witness ==
  \E s \in Sessions :
    LET c == sess[s] IN
    /\ c.kind = "multi" /\ Finished(s) /\ c.outcome.state = "returned"
    /\ Len(c.confs) = 2
    /\ {c.log[k].conf : k \in Ops(c, {"query"})} = {1, 2}

----------------------------------------------------------------------------
(* A failed configuration ends the batch *)

\* C21: once a configuration of a batch has failed (in validation, in the
\* distinct scan, in getSqlCase or in the query), the call is in its finally
\* block or finished: no validation or statement of a later configuration
\* is in its log, and when it has finished it has thrown, an error being
\* all the caller gets whatever results had been collected.
C21_FailureEndsBatch ==
  \A s \in Sessions :
    LET c == sess[s] IN
    (c.kind = "multi" /\ c.saved # NoError)
      => /\ c.pc \in {"clearModel", "done"}
         /\ \A j \in Ops(c, {"validate"} \cup Queries) : c.log[j].conf <= c.i
         /\ Len(c.results) = c.i - 1
         /\ Finished(s)
              => /\ c.outcome.state = "threw"
                 /\ c.outcome.value = <<>>
                 /\ c.outcome.err \in Range(c.errors)

\* C21 witness: a batch has finished whose second configuration failed
\* after the result of the first had been collected.
C21_Witness ==
  \E s \in Sessions :
    LET c == sess[s] IN
    /\ c.kind = "multi" /\ Finished(s) /\ c.saved # NoError
    /\ c.i = 2 /\ Len(c.results) = 1

----------------------------------------------------------------------------
(* Well-formed queries *)

\* C22: every query assembled for a configuration that passed validation
\* has a select list with at least one expression, a GROUP BY only with at
\* least one expression after it, and an ORDER BY only with at least one
\* expression after it.
C22_QueryWellFormed ==
  \A s \in Sessions :
    LET c == sess[s] IN
    (c.pc = "getSql" /\ c.pending.ok)
      => /\ c.pending.val.groupFieldsSql \o c.pending.val.selectArr # <<>>
         /\ c.pending.val.hasGroupBy => c.pending.val.groupFields # <<>>
         /\ c.pending.val.hasOrderBy => c.pending.val.orderBy # <<>>

====
